---- MODULE Spec2Model ----
(***************************************************************************)
(* State-machine model of the n-Queens evolutionary algorithm of           *)
(* src/nqueens.py: class Individual (genotype + cached fitness) and class  *)
(* Population (initialisation, parent selection, cut-and-crossfill         *)
(* crossover, swap mutation, replace-worst survival selection, and the     *)
(* evolve() loop with its two termination reports).                        *)
(*                                                                         *)
(* Individuals are Python objects: the model keeps them in a heap and the  *)
(* population, the parents and the offspring hold references (heap         *)
(* indices), so that two names for one object stay two names for one       *)
(* object.  Code positions are 0-based, TLA+ sequences 1-based: x[i] of    *)
(* the code is x[i + 1] here.                                              *)
(*                                                                         *)
(* print_status and config_string, the display, assign nothing of the run  *)
(* and are left out.  They draw an N x N board from the module constant N  *)
(* and raise IndexError on a genotype shorter than N: the runs below with  *)
(* nqueens < N are runs of the algorithm with the display switched off.    *)
(***************************************************************************)
EXTENDS Integers, Sequences, FiniteSets, TLC

VARIABLES
    nqueens,          \* Population.nqueens
    pop_size,         \* Population.pop_size
    prob_mutation,    \* Population.prob_mutation, in percent
    prob_recomb,      \* Population.prob_recomb, in percent
    max_eval,         \* Population.max_eval
    heap,             \* the live Individual objects: [x, fitness] records
    population,       \* Population.population: a list of references
    eval_count,       \* Population.eval_count
    pc,               \* where the run stands
    it,               \* evolve(): the generation counter
    p1, p2,           \* evolve(): the selected parents (references, 0 = unset)
    o1, o2,           \* evolve(): the offspring (references, 0 = unset)
    ms,               \* mutate(): the position s while t is redrawn (-1 = unset)
    reported,         \* what evolve() printed at its end
    calls,            \* history: number of calculate_fitness calls so far
    cut,              \* history: the cut point r the crossover call just made
                      \* drew (0 = none)
    best_at_start,    \* history: lowest fitness in the population when the
                      \* running generation started (-1 = no generation runs)
    eval_at_start     \* history: eval_count when the running generation
                      \* started (-1 = no generation runs)

vars == << nqueens, pop_size, prob_mutation, prob_recomb, max_eval, heap,
           population, eval_count, pc, it, p1, p2, o1, o2, ms, reported,
           calls, cut, best_at_start, eval_at_start >>

config == << nqueens, pop_size, prob_mutation, prob_recomb, max_eval >>

-----------------------------------------------------------------------------
(* Program constants and the bounds of the model.                          *)

\* N = 8: the module-level board size, which crossover reads.
N == 8

\* sample(self.population, 5): the tournament size.
TOURNAMENT == 5

\* Board sizes of a run are 1..MaxQueens.
MaxQueens == 4

\* Board sizes of the fitness function's inputs are 1..MaxBoard.
MaxBoard == 6

\* The largest evaluation budget max_eval of a run.
MaxEval == 10

\* Probabilities in percent: 0, the default mutation probability 0.8, and 1.
ProbValues == {0, 80, 100}

\* Outcomes of random(), a float in [0, 1), in percent.
RandomValues == {0, 50, 99}

PopSizes == {TOURNAMENT}

\* Budgets: next to none, just below the population size (no generation
\* runs under either), one generation, and MaxEval (two generations and more).
MaxEvalValues == {MaxEval - 10, MaxEval - 6, MaxEval - 4, MaxEval}

\* The configurations of a run.  The largest budget is explored where a
\* generation has few outcomes: under the default recombination probability
\* P_RECOMB = 1, and without mutation.
Configs ==
    { c \in [nqueens : 1..MaxQueens, pop_size : PopSizes,
              prob_mutation : ProbValues, prob_recomb : ProbValues,
              max_eval : MaxEvalValues] :
        c.max_eval = MaxEval => (c.prob_recomb = 100 \/ c.prob_mutation = 0) }

-----------------------------------------------------------------------------
(* Helpers on sequences.                                                   *)

Min(a, b) == IF a <= b THEN a ELSE b

Abs(a) == IF a < 0 THEN -a ELSE a

Range(s) == {s[i] : i \in DOMAIN s}

\* The permutations of 1..n, as sequences.
Perms(n) == {p \in [1..n -> 1..n] : \A i, j \in 1..n : p[i] = p[j] => i = j}

-----------------------------------------------------------------------------
(* class Individual                                                        *)

\* Individual.calculate_fitness: for n in range(N), for j in range(2, N),
\* m = j - 1; a hit at n + m and a hit at n - m each add one to checks;
\* the result is checks/2 (checks is even: every hit is seen from both ends).
calculate_fitness(x) ==
    LET len == Len(x)
        use_plus(n, m) == 0 <= n + m /\ n + m <= len - 1
        use_min(n, m)  == 0 <= n - m /\ n - m <= len - 1
        hit(idx, n, m) == \/ x[idx + 1] = x[n + 1] + m
                          \/ x[idx + 1] = x[n + 1] - m
        plus == { nj \in (0 .. len - 1) \X (2 .. len - 1) :
                    /\ use_plus(nj[1], nj[2] - 1)
                    /\ hit(nj[1] + (nj[2] - 1), nj[1], nj[2] - 1) }
        minus == { nj \in (0 .. len - 1) \X (2 .. len - 1) :
                    /\ use_min(nj[1], nj[2] - 1)
                    /\ hit(nj[1] - (nj[2] - 1), nj[1], nj[2] - 1) }
        checks == Cardinality(plus) + Cardinality(minus)
    IN  checks \div 2

\* Individual.__init__: the genotype and its cached fitness.
Individual(perm) == [x |-> perm, fitness |-> calculate_fitness(perm)]

\* Variant: update leaves the cached fitness as it is.
update_keep(ind) == ind

\* Individual.update: recompute the cached fitness.
update(ind) == [ind EXCEPT !.fitness = calculate_fitness(ind.x)]

-----------------------------------------------------------------------------
(* Randomness.  random.shuffle may return any permutation; initialisation  *)
(* draws each individual from two of them per board size.                 *)

\* copy = list(range(1, self.nqueens+1)); shuffle(copy)
ShuffleOutcomes(n) ==
    CASE n = 1 -> { <<1>> }
      [] n = 2 -> { <<1, 2>>, <<2, 1>> }
      [] n = 3 -> { <<1, 2, 3>>, <<3, 1, 2>> }
      [] n = 4 -> { <<2, 4, 3, 1>>, <<2, 4, 1, 3>> }
      [] n = 5 -> { <<1, 3, 5, 4, 2>>, <<1, 3, 5, 2, 4>> }
      [] OTHER -> { [i \in 1..n |-> i], [i \in 1..n |-> n + 1 - i] }

\* The slots of a set, in ascending order.
RECURSIVE Ascending(_)
Ascending(slots) ==
    IF slots = {} THEN << >>
    ELSE LET least == CHOOSE i \in slots : \A j \in slots : i <= j
         IN  << least >> \o Ascending(slots \ {least})

\* sample(self.population, 5): TOURNAMENT distinct slots of the list, in any
\* drawing order (no sample when the list is shorter: ValueError).
Samples(pop) ==
    { [k \in 1..TOURNAMENT |-> pop[Ascending(slots)[order[k]]]] :
        slots \in { c \in SUBSET (1..Len(pop)) : Cardinality(c) = TOURNAMENT },
        order \in Permutations(1..TOURNAMENT) }

-----------------------------------------------------------------------------
(* class Population: the pure parts of its methods.                        *)

\* F = [x.fitness for x in S]
FitnessList(refs) == [k \in 1..Len(refs) |-> heap[refs[k]].fitness]

\* sorted(...) of pairs (e, i): the least pair, by e and then by i, first.
RECURSIVE sorted_pairs(_, _)
sorted_pairs(F, slots) ==
    IF slots = {} THEN << >>
    ELSE LET least == CHOOSE i \in slots : \A j \in slots :
                          F[i] < F[j] \/ (F[i] = F[j] /\ i <= j)
         IN  << least >> \o sorted_pairs(F, slots \ {least})

\* L = sorted((e, i) for i, e in enumerate(F)): the indices i, in the order
\* of the sorted pairs.
sorted_idx(F) == sorted_pairs(F, 1..Len(F))

\* Variant: the two individuals drawn first, whatever their fitness.
first_two(S) == << S[1], S[2] >>

\* p1 = S[L[0][1]]; p2 = S[L[1][1]]
best_two(S) ==
    LET L == sorted_idx(FitnessList(S))
    IN  << S[L[1]], S[L[2]] >>

\* for i in other: if not i in off: off.append(i)
RECURSIVE crossfill(_, _)
crossfill(off, other) ==
    IF other = << >> THEN off
    ELSE IF Head(other) \in Range(off)
         THEN crossfill(off, Tail(other))
         ELSE crossfill(Append(off, Head(other)), Tail(other))

\* Variant: one-point crossover, the tail of the other parent appended
\* without the crossfill test.
offspring_onepoint(a, b, r) ==
    SubSeq(a, 1, Min(r, Len(a))) \o SubSeq(b, Min(r, Len(a)) + 1, Len(b))

\* Variant: the genes missing after the cut are filled in ascending order.
offspring_ascending(a, b, r) ==
    crossfill(SubSeq(a, 1, Min(r, Len(a))), [i \in 1..Len(b) |-> i])

\* seg1 = p1.x[:r]; off1 = list(seg1); for i in p2: ...
offspring(a, b, r) == crossfill(SubSeq(a, 1, Min(r, Len(a))), b)

\* Variant: position s takes the gene of position t, which keeps it too.
swap_overwrite(x, s, t) == [x EXCEPT ![s + 1] = x[t + 1]]

\* ind.x[s], ind.x[t] = ind.x[t], ind.x[s]   (s, t are 0-based)
swap(x, s, t) == [x EXCEPT ![s + 1] = x[t + 1], ![t + 1] = x[s + 1]]

\* Variant: the redraw returns the position it was given.
redraw_outcomes_same(s) == {s}

\* t = randint(0, self.nqueens - 1), inside "while s == t"
redraw_outcomes(s) == 0 .. (nqueens - 1)

\* Variant: a call of mutate charged as two evaluations.
charge_update_twice(count) == count + 2

\* self.eval_count += 1, after ind.update() in mutate
charge_update(count) == count + 1

\* Variant: the two new offspring charged as one evaluation.
charge_offspring_once(count) == count + 1

\* self.eval_count += 2, after the two Individual(...) of crossover
charge_offspring(count) == count + 2

\* have_solution: any(x.fitness == 0 for x in self.population)
have_solution == \E k \in 1..Len(population) : heap[population[k]].fitness = 0

\* Variant: the budget compared with the generation counter.
loop_condition_generations == ~have_solution /\ it < max_eval

\* Variant: the loop tests the budget alone.
loop_condition_budget == eval_count < max_eval

\* evolve: while (not self.have_solution()) and (self.eval_count < self.max_eval)
loop_condition == ~have_solution /\ eval_count < max_eval

\* Variant: the last pop_size entries of the sorted list are kept.
survivors_worst(joined) ==
    LET L == sorted_idx(FitnessList(joined))
    IN  [i \in 1..pop_size |-> joined[L[i + Len(joined) - pop_size]]]

\* survival_selection: newpop = [joined[L[i][1]] for i in range(pop_size)]
survivors(joined) ==
    LET L == sorted_idx(FitnessList(joined))
    IN  [i \in 1..pop_size |-> joined[L[i]]]

\* Objects no longer referenced are dropped and the rest renumbered in the
\* order of their first slot in the population (references carry no meaning
\* beyond identity).
FirstSlot(pop, id) == CHOOSE k \in 1..Len(pop) :
                        pop[k] = id /\ \A j \in 1..(k - 1) : pop[j] # id

Rank(pop, id) ==
    Cardinality({ other \in Range(pop) : FirstSlot(pop, other) <= FirstSlot(pop, id) })

CompactPopulation(pop) == [k \in 1..Len(pop) |-> Rank(pop, pop[k])]

CompactHeap(h, pop) ==
    [k \in 1..Cardinality(Range(pop)) |->
        h[CHOOSE id \in Range(pop) : Rank(pop, id) = k]]

-----------------------------------------------------------------------------
(* The run: Population() followed by evolve().                             *)

\* Population.__init__ up to the call of initialize_population.
Init ==
    /\ \E c \in Configs :
          /\ nqueens = c.nqueens
          /\ pop_size = c.pop_size
          /\ prob_mutation = c.prob_mutation
          /\ prob_recomb = c.prob_recomb
          /\ max_eval = c.max_eval
    /\ heap = << >>
    /\ population = << >>
    /\ eval_count = 0
    /\ pc = "init"
    /\ it = 0
    /\ p1 = 0 /\ p2 = 0 /\ o1 = 0 /\ o2 = 0
    /\ ms = -1
    /\ reported = {}
    /\ calls = 0
    /\ cut = 0
    /\ best_at_start = -1
    /\ eval_at_start = -1

\* initialize_population: one pass of its loop.
InitializeIndividual ==
    /\ pc = "init"
    /\ Len(population) < pop_size
    /\ \E copy \in ShuffleOutcomes(nqueens) :
          /\ heap' = Append(heap, Individual(copy))
          /\ population' = Append(population, Len(heap) + 1)
    /\ eval_count' = eval_count + 1
    /\ calls' = calls + 1
    /\ pc' = IF Len(population) + 1 = pop_size THEN "loop" ELSE "init"
    /\ UNCHANGED << config, it, p1, p2, o1, o2, ms, reported, cut, best_at_start,
                    eval_at_start >>

\* evolve: the loop test passes; parent_selection.
ParentSelection ==
    /\ pc = "loop"
    /\ loop_condition
    /\ \E parents \in { best_two(S) : S \in Samples(population) } :
          /\ p1' = parents[1]
          /\ p2' = parents[2]
    /\ best_at_start' = FitnessList(population)[sorted_idx(FitnessList(population))[1]]
    /\ eval_at_start' = eval_count
    /\ pc' = "crossover"
    /\ UNCHANGED << config, heap, population, eval_count, it, o1, o2, ms,
                    reported, calls, cut >>

\* crossover(p1, p2).  evolve() does not read p1 and p2 again before it
\* assigns them anew, so the model forgets them here.
Crossover ==
    /\ pc = "crossover"
    /\ \E s \in RandomValues :
          IF ~(s < prob_recomb)
          THEN /\ o1' = p1
               /\ o2' = p2
               /\ cut' = 0
               /\ UNCHANGED << heap, eval_count, calls >>
          ELSE \E r \in 1 .. (N - 1) :
                 /\ heap' = heap \o << Individual(offspring(heap[p1].x, heap[p2].x, r)),
                                       Individual(offspring(heap[p2].x, heap[p1].x, r)) >>
                 /\ o1' = Len(heap) + 1
                 /\ o2' = Len(heap) + 2
                 /\ eval_count' = charge_offspring(eval_count)
                 /\ calls' = calls + 2
                 /\ cut' = r
    /\ p1' = 0 /\ p2' = 0
    /\ pc' = "mutate1"
    /\ UNCHANGED << config, population, it, ms, reported, best_at_start,
                    eval_at_start >>

\* mutate(ind), from its swap on: the swap of positions s and t, update()
\* and the charge.
Swapped(ind, s, t, next) ==
    /\ heap' = [heap EXCEPT ![ind] = update([@ EXCEPT !.x = swap(@, s, t)])]
    /\ eval_count' = charge_update(eval_count)
    /\ calls' = calls + 1
    /\ ms' = -1
    /\ pc' = next

\* mutate(ind) up to the first test of "while s == t".
Mutate(ind, redraw, next) ==
    /\ \E r \in RandomValues :
          IF r < prob_mutation
          THEN \E s, t \in 0 .. (nqueens - 1) :
                 IF s = t
                 THEN /\ ms' = s
                      /\ pc' = redraw
                      /\ UNCHANGED << heap, eval_count, calls >>
                 ELSE Swapped(ind, s, t, next)
          ELSE /\ heap' = [heap EXCEPT ![ind] = update(@)]
               /\ eval_count' = charge_update(eval_count)
               /\ calls' = calls + 1
               /\ pc' = next
               /\ UNCHANGED ms
    /\ cut' = 0
    /\ UNCHANGED << config, population, it, p1, p2, o1, o2, reported,
                    best_at_start, eval_at_start >>

\* mutate(ind): one pass of "while s == t: t = randint(0, self.nqueens - 1)".
Redraw(ind, next) ==
    \E t \in redraw_outcomes(ms) :
        IF t = ms
        THEN UNCHANGED vars
        ELSE /\ Swapped(ind, ms, t, next)
             /\ cut' = 0
             /\ UNCHANGED << config, population, it, p1, p2, o1, o2, reported,
                             best_at_start, eval_at_start >>

Mutate1 == pc = "mutate1" /\ Mutate(o1, "redraw1", "mutate2")

Redraw1 == pc = "redraw1" /\ Redraw(o1, "mutate2")

Mutate2 == pc = "mutate2" /\ Mutate(o2, "redraw2", "survive")

Redraw2 == pc = "redraw2" /\ Redraw(o2, "survive")

\* survival_selection([o1, o2]); it += 1
SurvivalSelection ==
    /\ pc = "survive"
    /\ LET newpop == survivors(population \o << o1, o2 >>)
       IN  /\ population' = CompactPopulation(newpop)
           /\ heap' = CompactHeap(heap, newpop)
    /\ it' = it + 1
    /\ p1' = 0 /\ p2' = 0 /\ o1' = 0 /\ o2' = 0
    /\ best_at_start' = -1
    /\ eval_at_start' = -1
    /\ pc' = "loop"
    /\ UNCHANGED << config, eval_count, ms, reported, calls, cut >>

\* evolve: the loop test fails; the two reports after the loop.
Finish ==
    /\ pc = "loop"
    /\ ~loop_condition
    /\ reported' = (IF eval_count >= max_eval THEN {"max_eval"} ELSE {})
                        \cup (IF have_solution THEN {"solution"} ELSE {})
    /\ pc' = "done"
    /\ UNCHANGED << config, heap, population, eval_count, it, p1, p2, o1, o2,
                    ms, calls, cut, best_at_start, eval_at_start >>

Next ==
    \/ InitializeIndividual
    \/ ParentSelection
    \/ Crossover
    \/ Mutate1
    \/ Redraw1
    \/ Mutate2
    \/ Redraw2
    \/ SurvivalSelection
    \/ Finish

Spec == Init /\ [][Next]_vars

\* A step that changes the state can be taken: the guards of the actions,
\* with the draws they need.
CanStep ==
    CASE pc = "init" -> Len(population) < pop_size /\ ShuffleOutcomes(nqueens) # {}
      [] pc = "loop" -> loop_condition => Samples(population) # {}
      [] pc = "crossover" -> p1 \in DOMAIN heap /\ p2 \in DOMAIN heap
      [] pc = "mutate1" -> o1 \in DOMAIN heap /\ nqueens >= 1
      [] pc = "mutate2" -> o2 \in DOMAIN heap /\ nqueens >= 1
      [] pc \in {"redraw1", "redraw2"} -> \E t \in redraw_outcomes(ms) : t # ms
      [] pc = "survive" -> Len(population) + 2 >= pop_size
      [] OTHER -> FALSE

\* The interpreter keeps running the program: weak fairness of Next, with the
\* enabling condition of a step spelled out by CanStep. A redraw that keeps
\* returning t = s is not a step, so a fair run leaves the while loop of
\* mutate() (lines 104-105).
FairSpec == Spec /\ ([]<>(~CanStep) \/ []<><<Next>>_vars)

-----------------------------------------------------------------------------
(* Population() with arguments outside their intended ranges.  __init__    *)
(* stores its arguments as they come (lines 80-85) and goes on to          *)
(* initialize_population.                                                  *)

\* Arguments of which at least one is out of range: an empty board, a
\* population below the tournament size, a probability below 0 or above 1
\* (in percent).  The budget allows one generation.
OddConfigs ==
    { c \in [nqueens : {0, 3}, pop_size : {TOURNAMENT - 1, TOURNAMENT},
              prob_mutation : {-50, 80, 150}, prob_recomb : {-50, 100, 150},
              max_eval : {MaxEval - 4}] :
        \/ c.nqueens < 1
        \/ c.pop_size < TOURNAMENT
        \/ c.prob_mutation \notin 0..100
        \/ c.prob_recomb \notin 0..100 }

OddInit ==
    /\ \E c \in OddConfigs :
          /\ nqueens = c.nqueens
          /\ pop_size = c.pop_size
          /\ prob_mutation = c.prob_mutation
          /\ prob_recomb = c.prob_recomb
          /\ max_eval = c.max_eval
    /\ heap = << >>
    /\ population = << >>
    /\ eval_count = 0
    /\ pc = "init"
    /\ it = 0
    /\ p1 = 0 /\ p2 = 0 /\ o1 = 0 /\ o2 = 0
    /\ ms = -1
    /\ reported = {}
    /\ calls = 0
    /\ cut = 0
    /\ best_at_start = -1
    /\ eval_at_start = -1

\* parent_selection on a population of fewer than 5: sample raises
\* ValueError, which leaves evolve().
SampleError ==
    /\ pc = "loop"
    /\ loop_condition
    /\ Len(population) < TOURNAMENT
    /\ pc' = "error"
    /\ UNCHANGED << config, heap, population, eval_count, it, p1, p2, o1, o2,
                    ms, reported, calls, cut, best_at_start, eval_at_start >>

OddNext == Next \/ SampleError

OddSpec == OddInit /\ [][OddNext]_vars

-----------------------------------------------------------------------------
(* crossover on its own: p.crossover(p.population[0], p.population[1]) on  *)
(* a Population of two, for every pair of permutations of 1..n.            *)

CrossInit ==
    /\ nqueens \in 1..MaxQueens
    /\ pop_size = 2
    /\ prob_mutation = 0
    /\ prob_recomb \in ProbValues
    /\ max_eval = MaxEval
    /\ \E a, b \in Perms(nqueens) : heap = << Individual(a), Individual(b) >>
    /\ population = << 1, 2 >>
    /\ eval_count = 2
    /\ pc = "crossover"
    /\ it = 0
    /\ p1 = 1 /\ p2 = 2 /\ o1 = 0 /\ o2 = 0
    /\ ms = -1
    /\ reported = {}
    /\ calls = 2
    /\ cut = 0
    /\ best_at_start = -1
    /\ eval_at_start = -1

CrossNext == Crossover

CrossSpec == CrossInit /\ [][CrossNext]_vars

-----------------------------------------------------------------------------
(* parent_selection on its own, at the first loop test of evolve() on a    *)
(* Population(pop_size=6, nqueens=4): one slot more than the tournament    *)
(* draws, and fitness values that tie.                                     *)

\* Outcomes of shuffle on the 4-board, of fitness 5, 2 and 1.
SelectGenotypes == { << 1, 2, 3, 4 >>, << 1, 2, 4, 3 >>, << 1, 3, 2, 4 >> }

SelectInit ==
    /\ nqueens = 4
    /\ pop_size = TOURNAMENT + 1
    /\ prob_mutation = 0
    /\ prob_recomb = 100
    /\ max_eval = MaxEval
    /\ \E g \in [1..(TOURNAMENT + 1) -> SelectGenotypes] :
          heap = [k \in 1..(TOURNAMENT + 1) |-> Individual(g[k])]
    /\ population = [k \in 1..(TOURNAMENT + 1) |-> k]
    /\ eval_count = TOURNAMENT + 1
    /\ pc = "loop"
    /\ it = 0
    /\ p1 = 0 /\ p2 = 0 /\ o1 = 0 /\ o2 = 0
    /\ ms = -1
    /\ reported = {}
    /\ calls = TOURNAMENT + 1
    /\ cut = 0
    /\ best_at_start = -1
    /\ eval_at_start = -1

SelectNext == ParentSelection

SelectSpec == SelectInit /\ [][SelectNext]_vars

-----------------------------------------------------------------------------
(* mutate on its own: p.mutate(p.population[0]) on a Population of one,    *)
(* for every permutation of 1..n, n >= 2.                                  *)

MutateInit ==
    /\ nqueens \in 2..MaxQueens
    /\ pop_size = 1
    /\ prob_mutation \in ProbValues
    /\ prob_recomb = 100
    /\ max_eval = MaxEval
    /\ \E a \in Perms(nqueens) : heap = << Individual(a) >>
    /\ population = << 1 >>
    /\ eval_count = 1
    /\ pc = "mutate2"
    /\ it = 0
    /\ p1 = 0 /\ p2 = 0 /\ o1 = 0 /\ o2 = 1
    /\ ms = -1
    /\ reported = {}
    /\ calls = 1
    /\ cut = 0
    /\ best_at_start = -1
    /\ eval_at_start = -1

MutateNext == Mutate2 \/ Redraw2

MutateSpec == MutateInit /\ [][MutateNext]_vars

-----------------------------------------------------------------------------
(* The fitness function on its own: Individual(perm) for every permutation *)
(* perm of 1..n, n in 1..MaxBoard.                                         *)

FitnessInit ==
    /\ nqueens \in 1..MaxBoard
    /\ pop_size = 0
    /\ prob_mutation = 0
    /\ prob_recomb = 0
    /\ max_eval = 0
    /\ heap = << >>
    /\ population = << >>
    /\ eval_count = 0
    /\ pc = "individual"
    /\ it = 0
    /\ p1 = 0 /\ p2 = 0 /\ o1 = 0 /\ o2 = 0
    /\ ms = -1
    /\ reported = {}
    /\ calls = 0
    /\ cut = 0
    /\ best_at_start = -1
    /\ eval_at_start = -1

\* ind = Individual(perm)
NewIndividual ==
    /\ pc = "individual"
    /\ heap = << >>
    /\ \E perm \in Perms(nqueens) : heap' = << Individual(perm) >>
    /\ calls' = calls + 1
    /\ UNCHANGED << config, population, eval_count, pc, it, p1, p2, o1, o2, ms,
                    reported, cut, best_at_start, eval_at_start >>

FitnessNext == NewIndividual

FitnessSpec == FitnessInit /\ [][FitnessNext]_vars

-----------------------------------------------------------------------------
(* What the claims speak of.                                               *)

\* The number of unordered pairs of positions on a common diagonal.
Conflicts(x) ==
    Cardinality({ ij \in (1..Len(x)) \X (1..Len(x)) :
        ij[1] < ij[2] /\ Abs(ij[1] - ij[2]) = Abs(x[ij[1]] - x[ij[2]]) })

\* x is a valid placement: no two queens share a diagonal.
ValidPlacement(x) ==
    \A i, j \in 1..Len(x) : i < j => Abs(i - j) # Abs(x[i] - x[j])

IsPermutation(x, n) == Len(x) = n /\ Range(x) = 1..n

\* The lowest fitness among the individuals a list of references names.
LowestFitness(h, refs) ==
    CHOOSE f \in { h[refs[k]].fitness : k \in 1..Len(refs) } :
        \A k \in 1..Len(refs) : f <= h[refs[k]].fitness

\* The individuals (genotype and fitness) a list of references names.
Contents(h, refs) == [k \in 1..Len(refs) |-> h[refs[k]]]

\* C1: calculate_fitness returns 0 exactly for the valid placements.
C1_ZeroIffValid ==
    \A i \in DOMAIN heap : (heap[i].fitness = 0) <=> ValidPlacement(heap[i].x)

\* C10: calculate_fitness returns the number of unordered pairs of positions
\* on a common diagonal, over all distances 1..n-1.
C10_CountsAllPairs ==
    \A i \in DOMAIN heap : heap[i].fitness = Conflicts(heap[i].x)

\* C2: every individual of a run, in the population or an offspring, holds a
\* permutation of 1..nqueens.
C2_AllPermutations ==
    \A i \in DOMAIN heap : IsPermutation(heap[i].x, nqueens)

\* C2's case: crossover has built an offspring that no member of the
\* population equals, and both offspring have gone through mutate.
C2_Witness ==
    /\ pc = "survive"
    /\ o1 \notin Range(population)
    /\ \A k \in 1..Len(population) : heap[population[k]].x # heap[o1].x
    /\ heap[o1].x # heap[o2].x

\* C3: the lowest fitness in the population after a generation is never
\* greater than the lowest fitness before it.
C3_BestNeverLost ==
    [][pc = "survive" => LowestFitness(heap', population') <= best_at_start]_vars

\* C4: eval_count never exceeds max_eval + pop_size.
C4_EvalBound == eval_count <= max_eval + pop_size

\* C4's case: a run with at least one generation has ended past its budget.
C4_Witness == pc = "done" /\ it >= 1 /\ eval_count > max_eval

\* C5: between operations eval_count is the number of fitness computations
\* made so far, and no step lowers it.
C5_CountsEveryEvaluation ==
    [](eval_count = calls) /\ [][eval_count' >= eval_count]_vars

\* C5's case: a generation has run with new offspring built and mutated.
C5_Witness == pc = "survive" /\ calls = pop_size + 4 /\ o1 \notin Range(population)

\* Steps of the run still ahead within one value of eval_count: the steps
\* of a generation that leave eval_count alone follow each other in this
\* order.
StepsAhead ==
    CASE pc = "done" -> 0
      [] pc \in {"redraw1", "redraw2"} -> 1
      [] pc \in {"mutate1", "mutate2"} -> 2
      [] pc = "crossover" -> 3
      [] pc = "loop" -> 4
      [] pc = "survive" -> 5
      [] pc = "init" -> 6

\* What is left of the run: the evaluations the budget still allows (a
\* generation started below max_eval ends at most 3 above it), then the steps.
Remaining == 8 * (max_eval + pop_size + 4 - eval_count) + StepsAhead

\* C6: every run that keeps taking steps, with a redraw that eventually returns
\* t # s, reaches the end of evolve().  Until then a step that changes the
\* state can always be taken, and every such step lowers Remaining, a natural
\* number: no run takes infinitely many steps.
C6_Terminates ==
    /\ <>(pc = "done")
    /\ [](pc = "done" \/ CanStep)
    /\ [](Remaining >= 0)
    /\ [][Remaining' < Remaining]_vars

\* C6's case: a run has left the loop after two generations and more with the
\* budget used up and no solution in the population.
C6_Witness == pc = "done" /\ it >= 2 /\ eval_count >= max_eval /\ ~have_solution

\* C7: exhaustion is reported only with the budget used up and no individual
\* of fitness 0 in the final population; a final population with such an
\* individual is reported as solved alone.
C7_OneOutcome ==
    pc = "done" =>
        /\ "max_eval" \in reported => (eval_count >= max_eval /\ ~have_solution)
        /\ have_solution => reported = {"solution"}
        /\ Cardinality(reported) = 1

\* C8: a run on board size 2 or 3 with max_eval > pop_size ends exhausted and
\* never solved.
C8_DegenerateExhausted ==
    (pc = "done" /\ nqueens \in {2, 3} /\ max_eval > pop_size) =>
        /\ reported = {"max_eval"}
        /\ eval_count >= max_eval

\* The slot that k - 1 slots precede in ascending order of fitness, a slot
\* of equal fitness preceding the later ones.
SlotOfRank(F, k) ==
    CHOOSE i \in 1..Len(F) :
        Cardinality({ j \in 1..Len(F) : F[j] < F[i] \/ (F[j] = F[i] /\ j < i) }) = k - 1

\* C9: survival_selection leaves the first pop_size entries of the merged
\* list population ++ offspring in stable ascending order of fitness; the
\* population of a constructed Population always has pop_size entries, and
\* the lowest fitness of the merged list is kept.
C9_ReplaceWorst ==
    /\ [](pc # "init" => Len(population) = pop_size)
    /\ [][pc = "survive" =>
            LET joined == population \o << o1, o2 >>
                F == [k \in 1..Len(joined) |-> heap[joined[k]].fitness]
            IN  /\ Contents(heap', population') =
                       [k \in 1..pop_size |-> heap[joined[SlotOfRank(F, k)]]]
                /\ LowestFitness(heap', population') = LowestFitness(heap, joined)]_vars

\* C9's case: survival selection has taken a new offspring, with a genotype
\* initialisation did not draw, into the population.
C9_Witness ==
    /\ pc = "loop"
    /\ it = 1
    /\ eval_count = pop_size + 4
    /\ \E k \in 1..Len(population) :
          heap[population[k]].x \notin ShuffleOutcomes(nqueens)

\* C11: a run whose initial population holds an individual of fitness 0 ends
\* at once: generation counter 0, population, individuals and eval_count as
\* initialisation left them, and a solution reported.  A generation is only
\* started with no individual of fitness 0 in the population and
\* eval_count < max_eval.
C11_NoGenerationOnSolution ==
    /\ [][(pc = "loop" /\ it = 0 /\ have_solution) =>
            /\ pc' = "done"
            /\ it' = 0
            /\ population' = population
            /\ heap' = heap
            /\ eval_count' = eval_count
            /\ "solution" \in reported'
            /\ \E k \in 1..Len(population') : heap'[population'[k]].fitness = 0]_vars
    /\ [][pc' = "crossover" =>
            /\ \A k \in 1..Len(population) : heap[population[k]].fitness # 0
            /\ eval_count < max_eval]_vars

\* C11's case: a run on the 4-board drew the solution [2, 4, 1, 3] at
\* initialisation and has ended with budget left.
C11_Witness ==
    /\ pc = "done"
    /\ it = 0
    /\ nqueens = 4
    /\ eval_count = pop_size
    /\ eval_count < max_eval
    /\ \E k \in 1..Len(population) : heap[population[k]].x = << 2, 4, 1, 3 >>
    /\ "solution" \in reported

\* An argument of Population() is out of range.
InvalidConfiguration ==
    \/ nqueens < 1
    \/ pop_size < TOURNAMENT
    \/ prob_mutation < 0 \/ prob_mutation > 100
    \/ prob_recomb < 0 \/ prob_recomb > 100

\* C12: under an invalid configuration no population is initialised, no
\* fitness is evaluated and no generation is executed.
C12_InvalidRejected ==
    InvalidConfiguration =>
        /\ population = << >>
        /\ eval_count = 0
        /\ calls = 0
        /\ it = 0
        /\ pc \notin {"crossover", "mutate1", "redraw1", "mutate2", "redraw2", "survive"}

\* C13: the offspring that crossover returns are never objects of the
\* population, and a step of mutate leaves every individual of the population
\* as it was, genotype and cached fitness.
C13_OffspringAreCopies ==
    /\ [](pc \in {"mutate1", "redraw1", "mutate2", "redraw2", "survive"} =>
            /\ o1 \notin Range(population)
            /\ o2 \notin Range(population))
    /\ [][(pc \in {"mutate1", "redraw1", "mutate2", "redraw2"}) =>
            \A k \in 1..Len(population) :
                (heap'[population[k]] = heap[population[k]]) ]_vars

\* The first r genes of a (all of a when it has no more than r), followed by
\* the genes of b, in b's order, that are not among them.
CutAndCrossfill(a, b, r) ==
    LET prefix == SubSeq(a, 1, IF r < Len(a) THEN r ELSE Len(a))
    IN  prefix \o SelectSeq(b, LAMBDA v : v \notin Range(prefix))

\* C14: a crossover that recombines builds, for one cut point r, offspring 1
\* as the cut-and-crossfill of p1 with p2 and offspring 2 as that of p2 with
\* p1; both are new objects and every existing individual, p1 and p2 among
\* them, is left as it was.
C14_CutAndCrossfill ==
    [][(pc = "crossover" /\ heap' # heap) =>
        /\ \E r \in 1..(N - 1) :
              /\ heap'[o1'].x = CutAndCrossfill(heap[p1].x, heap[p2].x, r)
              /\ heap'[o2'].x = CutAndCrossfill(heap[p2].x, heap[p1].x, r)
        /\ o1' \notin DOMAIN heap /\ o2' \notin DOMAIN heap /\ o1' # o2'
        /\ \A i \in DOMAIN heap : heap'[i] = heap[i] ]_vars

\* C14's case: a crossover of two permutations of 1..4 has built an offspring
\* that takes genes of both parents and equals neither.
C14_Witness ==
    /\ pc = "mutate1"
    /\ nqueens = 4
    /\ o1 = 3 /\ o2 = 4
    /\ heap[3].x \notin {heap[1].x, heap[2].x}
    /\ heap[3].x[1] = heap[1].x[1]
    /\ heap[3].x[4] # heap[1].x[4]

\* C15: on a board of size nqueens >= 2 the cut point drawn by crossover lies
\* in 1..nqueens-1.
C15_CutInsideBoard ==
    (nqueens >= 2 /\ cut # 0) => (1 <= cut /\ cut <= nqueens - 1)

\* Draws of TOURNAMENT distinct slots of a list of len entries, in order.
Draws(len) ==
    { d \in [1..TOURNAMENT -> 1..len] :
        \A i, j \in 1..TOURNAMENT : d[i] = d[j] => i = j }

\* In the draw d, position i goes before position j: lower fitness, or equal
\* fitness and drawn earlier.
GoesBefore(d, i, j) ==
    LET fi == heap[population[d[i]]].fitness
        fj == heap[population[d[j]]].fitness
    IN  fi < fj \/ (fi = fj /\ i < j)

\* C16: parent_selection returns, for some draw of 5 distinct slots, the
\* drawn individual that goes before the four others as p1 and the one that
\* goes before the three remaining as p2; population and individuals are
\* left unchanged.
C16_BestTwoOfFive ==
    [][(pc = "loop" /\ pc' = "crossover") =>
        /\ \E d \in Draws(Len(population)) : \E a, b \in 1..TOURNAMENT :
              /\ a # b
              /\ p1' = population[d[a]]
              /\ p2' = population[d[b]]
              /\ \A c \in 1..TOURNAMENT \ {a} : GoesBefore(d, a, c)
              /\ \A c \in 1..TOURNAMENT \ {a, b} : GoesBefore(d, b, c)
        /\ heap[p1'].fitness <= heap[p2'].fitness
        /\ population' = population
        /\ heap' = heap ]_vars

\* C16's case: of six individuals the selection has returned two of equal
\* fitness, the later slot of the population as p1 (drawn earlier), while a
\* slot of lower fitness stayed outside the draw.
C16_Witness ==
    /\ pc = "crossover"
    /\ Len(population) = TOURNAMENT + 1
    /\ heap[p1].fitness = heap[p2].fitness
    /\ p1 > p2
    /\ \E k \in 1..Len(population) : heap[population[k]].fitness < heap[p1].fitness

\* y is x with the genes of two distinct positions exchanged.
TwoExchanged(x, y) ==
    \E s, t \in 1..Len(x) :
        /\ s # t
        /\ y[s] = x[t] /\ y[t] = x[s]
        /\ { k \in 1..Len(x) : y[k] # x[k] } = {s, t}

\* What the step that ends a call mutate(ind) does to ind and eval_count.
MutateEffect(ind) ==
    LET x == heap[ind].x
        y == heap'[ind].x
    IN  /\ Len(y) = Len(x)
        /\ y = x \/ TwoExchanged(x, y)
        /\ prob_mutation = 0 => y = x
        /\ prob_mutation = 100 => TwoExchanged(x, y)
        /\ heap'[ind].fitness = calculate_fitness(y)
        /\ eval_count' = eval_count + 1

\* C17: a call of mutate leaves the genotype with the genes of exactly two
\* distinct positions exchanged when the mutation fires (always, under
\* probability 1) and unchanged when it does not (always, under probability
\* 0); the fitness is that of the resulting genotype and eval_count is one
\* higher.
C17_SwapTwoPositions ==
    /\ [][((pc \in {"mutate1", "redraw1"}) /\ pc' = "mutate2") => MutateEffect(o1)]_vars
    /\ [][((pc \in {"mutate2", "redraw2"}) /\ pc' = "survive") => MutateEffect(o2)]_vars

\* C17's case: a mutation that fires on every call has ended, after a
\* redraw or without one, with the solution [2, 4, 1, 3] of the 4-board.
C17_Witness ==
    /\ pc = "survive"
    /\ prob_mutation = 100
    /\ pop_size = 1
    /\ eval_count = 2
    /\ heap[o2] = [x |-> << 2, 4, 1, 3 >>, fitness |-> 0]

\* C18: at every generation boundary (after initialisation and after each
\* survival selection, up to the end of the run) the cached fitness of every
\* individual of the population is calculate_fitness of its genotype.
C18_FitnessNeverStale ==
    pc \in {"loop", "done"} =>
        \A k \in 1..Len(population) :
            heap[population[k]].fitness = calculate_fitness(heap[population[k]].x)

\* C18's case: without recombination, a generation has ended with an
\* individual in the population that mutate changed in place (a genotype
\* that initialisation did not draw).
C18_Witness ==
    /\ pc = "loop"
    /\ it >= 1
    /\ prob_recomb = 0
    /\ \E k \in 1..Len(population) :
          heap[population[k]].x \notin ShuffleOutcomes(nqueens)

\* The least integer not below a / 4.
CeilQuarter(a) == -((-a) \div 4)

\* eval_count is pop_size right after initialisation; crossover adds 2 when it
\* recombines and nothing when it does not; a generation adds 4 or 2, 4 under
\* recombination probability 1 and 2 under 0; under probability 1 eval_count
\* is pop_size + 4 * it between generations.
BudgetAccounting ==
    /\ []((pc = "loop" /\ it = 0) => eval_count = pop_size)
    /\ [][pc = "crossover" =>
            eval_count' = eval_count + (IF cut' # 0 THEN 2 ELSE 0)]_vars
    /\ [][pc = "survive" =>
            /\ eval_count - eval_at_start \in {2, 4}
            /\ prob_recomb = 100 => eval_count - eval_at_start = 4
            /\ prob_recomb = 0 => eval_count - eval_at_start = 2]_vars
    /\ []((prob_recomb = 100 /\ pc \in {"loop", "done"}) =>
            eval_count = pop_size + 4 * it)

\* C19 as stated: the accounting, and under recombination probability 1 a
\* run that has ended executed no more than ceil((max_eval - pop_size) / 4)
\* generations.
C19_GenerationsAtMostCeil ==
    /\ BudgetAccounting
    /\ []((prob_recomb = 100 /\ pc = "done") =>
            it <= CeilQuarter(max_eval - pop_size))

\* C19, with the bound on the generations kept at 0 where the budget is below
\* the population size: the accounting, and under recombination probability 1
\* a run that has ended executed no more than
\* max(0, ceil((max_eval - pop_size) / 4)) generations.
C19_BudgetPerGeneration ==
    /\ BudgetAccounting
    /\ []((prob_recomb = 100 /\ pc = "done") =>
            it <= (IF max_eval > pop_size
                   THEN CeilQuarter(max_eval - pop_size) ELSE 0))

\* C19's case: under recombination probability 1 a run has ended after as
\* many generations as the bound allows, two of them, 8 evaluations above
\* the population size.
C19_Witness ==
    /\ pc = "done"
    /\ prob_recomb = 100
    /\ it = 2
    /\ it = CeilQuarter(max_eval - pop_size)
    /\ eval_count = pop_size + 8

====
